---- MODULE Spec2Model ----
(***************************************************************************)
(* Model of src/main.py, the SSSTiik backend: the request handlers         *)
(* download_video and get_video_info, the page scraper fetch_tiktok_data   *)
(* with its parsers parse_sigi_data and parse_universal_data, the          *)
(* short-link resolver get_redirect_url, and extract_video_id.             *)
(*                                                                         *)
(* A URL is a sequence of one-character strings, so that substring search, *)
(* lower(), strip() and the regular expressions are computed on            *)
(* characters as Python computes them.  A Python value that may be None,   *)
(* a str or something else is a record [k, s]: k is its type and s its     *)
(* text, a sequence of strings (a fixed message is one element).           *)
(***************************************************************************)
EXTENDS Integers, Sequences, FiniteSets, TLC

(***************************************************************************)
(* Bounds.                                                                 *)
(***************************************************************************)
MaxUrlChunks == 2      \* a request URL is at most this many chunks
MaxIdChunks == 4       \* a URL given to extract_video_id, in chunks
MaxBitrate == 2        \* entries of a bitrateInfo list
MaxRawLen == 2         \* units of a raw "downloadAddr" value

(***************************************************************************)
(* Python values.                                                          *)
(***************************************************************************)
None == [k |-> "none", s |-> <<>>]
Str(t) == [k |-> "str", s |-> t]
Num(t) == [k |-> "num", s |-> t]
Obj == [k |-> "obj", s |-> <<"{..}">>]      \* a non-empty JSON object

\* bool(v) of Python: None, "" and 0 are false
Truthy(v) ==
  \/ v.k = "str" /\ v.s # <<>>
  \/ v.k = "num" /\ v.s # <<"0">>
  \/ v.k = "obj"

\* a or b
PyOr(a, b) == IF Truthy(a) THEN a ELSE b

(***************************************************************************)
(* Characters and text.                                                    *)
(***************************************************************************)
Digits == {"0", "1", "2", "3", "4", "5", "6", "7", "8", "9"}
LowerLetters == {"a", "b", "c", "d", "e", "f", "g", "h", "i", "j", "k", "l",
                 "m", "n", "o", "p", "q", "r", "s", "t", "u", "v", "w", "x",
                 "y", "z"}
UpperLetters == {"T", "K"}

DigitCh == Digits                                                 \* \d
WordCh == Digits \cup LowerLetters \cup UpperLetters \cup {"_"}   \* \w
UserCh == WordCh \cup {".", "-"}                                  \* [\w.-]
IsDigit(c) == c \in DigitCh
IsSpace(c) == c = " "

LowerCh(c) == IF c = "T" THEN "t" ELSE IF c = "K" THEN "k" ELSE c
\* str.lower()
Lower(s) == [i \in 1..Len(s) |-> LowerCh(s[i])]

\* the literal lit occurs in s at position i
HasAt(s, i, lit) ==
  /\ i >= 1
  /\ i + Len(lit) - 1 <= Len(s)
  /\ \A j \in 1..Len(lit) : s[i + j - 1] = lit[j]

\* lit in s
Contains(s, lit) == \E i \in 1..Len(s) : HasAt(s, i, lit)

\* length of the longest run of characters of class C starting at i
Run(s, i, C) ==
  CHOOSE n \in 0..(Len(s) + 1) :
    /\ \A j \in i..(i + n - 1) : j <= Len(s) /\ s[j] \in C
    /\ (i + n > Len(s) \/ s[i + n] \notin C)

\* str.strip()
Strip(s) ==
  IF \A i \in 1..Len(s) : IsSpace(s[i]) THEN <<>>
  ELSE LET a == CHOOSE i \in 1..Len(s) :
                  ~IsSpace(s[i]) /\ \A j \in 1..(i - 1) : IsSpace(s[j])
           b == CHOOSE i \in 1..Len(s) :
                  ~IsSpace(s[i]) /\ \A j \in (i + 1)..Len(s) : IsSpace(s[j])
       IN SubSeq(s, a, b)

RECURSIVE Flatten(_)
\* the text of a sequence of chunks
Flatten(cs) == IF cs = <<>> THEN <<>> ELSE Head(cs) \o Flatten(Tail(cs))

\* sequences of length at most n over S
SeqsUpTo(S, n) == UNION {[1..m -> S] : m \in 0..n}

DomainText == <<"t", "i", "k", "t", "o", "k", ".", "c", "o", "m">>
DomainUpper == <<"T", "i", "k", "T", "o", "k", ".", "c", "o", "m">>
VmText == <<"v", "m", ".">>
VmDomainText == VmText \o DomainText
SlashTText == <<"/", "t", "/">>
DomainSlash == DomainText \o <<"/">>

(***************************************************************************)
(* extract_video_id: the pattern list and the loop over it.                *)
(***************************************************************************)
NoMatch == [found |-> FALSE, group |-> <<>>]
Match(g) == [found |-> TRUE, group |-> g]

\* re.search scans from the left: each SearchN takes the leftmost position
\* at which its pattern matches

\* tiktok\.com\/@[\w.-]+\/video\/(\d+)
P1User(s, i) == Run(s, i + 12, UserCh)
P1At(s, i) ==
  /\ HasAt(s, i, DomainSlash \o <<"@">>)
  /\ P1User(s, i) >= 1
  /\ HasAt(s, i + 12 + P1User(s, i), <<"/", "v", "i", "d", "e", "o", "/">>)
  /\ Run(s, i + 19 + P1User(s, i), DigitCh) >= 1
Search1(s) ==
  IF \E i \in 1..Len(s) : P1At(s, i)
  THEN LET i == (CHOOSE p \in 1..Len(s) :
                    P1At(s, p) /\ \A j \in 1..(p - 1) : ~P1At(s, j))
           d == i + 19 + P1User(s, i)
       IN Match(SubSeq(s, d, d + Run(s, d, DigitCh) - 1))
  ELSE NoMatch

\* tiktok\.com\/t\/(\w+)
P2At(s, i) ==
  /\ HasAt(s, i, DomainSlash \o <<"t", "/">>)
  /\ Run(s, i + 13, WordCh) >= 1
Search2(s) ==
  IF \E i \in 1..Len(s) : P2At(s, i)
  THEN LET d == (CHOOSE p \in 1..Len(s) :
                    P2At(s, p) /\ \A j \in 1..(p - 1) : ~P2At(s, j)) + 13
       IN Match(SubSeq(s, d, d + Run(s, d, WordCh) - 1))
  ELSE NoMatch

\* vm\.tiktok\.com\/(\w+)
P3At(s, i) ==
  /\ HasAt(s, i, VmText \o DomainSlash)
  /\ Run(s, i + 14, WordCh) >= 1
Search3(s) ==
  IF \E i \in 1..Len(s) : P3At(s, i)
  THEN LET d == (CHOOSE p \in 1..Len(s) :
                    P3At(s, p) /\ \A j \in 1..(p - 1) : ~P3At(s, j)) + 14
       IN Match(SubSeq(s, d, d + Run(s, d, WordCh) - 1))
  ELSE NoMatch

\* tiktok\.com\/.*[?&]v=(\d+) : the greedy .* ends at the last [?&]v=\d
P4Tail(s, p) ==
  /\ p <= Len(s)
  /\ s[p] \in {"?", "&"}
  /\ HasAt(s, p + 1, <<"v", "=">>)
  /\ Run(s, p + 3, DigitCh) >= 1
P4At(s, i) ==
  /\ HasAt(s, i, DomainSlash)
  /\ \E p \in (i + 11)..Len(s) : P4Tail(s, p)
Search4(s) ==
  IF \E i \in 1..Len(s) : P4At(s, i)
  THEN LET p == CHOOSE q \in 1..Len(s) :
                  P4Tail(s, q) /\ \A r \in (q + 1)..Len(s) : ~P4Tail(s, r)
       IN Match(SubSeq(s, p + 3, p + 2 + Run(s, p + 3, DigitCh)))
  ELSE NoMatch

NumPatterns == 4

\* a pattern list with the second and the third rule exchanged
SearchReordered(k, s) ==
  CASE k = 1 -> Search1(s)
    [] k = 2 -> Search3(s)
    [] k = 3 -> Search2(s)
    [] k = 4 -> Search4(s)

\* re.search(patterns[k], url)
Search(k, s) ==
  CASE k = 1 -> Search1(s)
    [] k = 2 -> Search2(s)
    [] k = 3 -> Search3(s)
    [] k = 4 -> Search4(s)

IdChunks ==
  { DomainSlash, VmText, <<"t", "/">>,
    <<"@", "u", "/", "v", "i", "d", "e", "o", "/", "7">>,
    <<"?", "v", "=", "5">>,
    <<"1", "2", "3", "4", "5", "6", "7", "8", "9", "0", "1">> }
IdUrls == {Flatten(cs) : cs \in SeqsUpTo(IdChunks, MaxIdChunks)}

VARIABLES
  xurl,      \* extract_video_id: the argument url
  xi,        \* extract_video_id: index of the pattern the loop is at
  xpc,       \* extract_video_id: "idle", "loop" or "done"
  xres       \* extract_video_id: the returned value

xvars == <<xurl, xi, xpc, xres>>

XIdle == xurl = <<>> /\ xi = 1 /\ xpc = "idle" /\ xres = None

\* one iteration of "for pattern in patterns" whose pattern matches
ExtractMatch ==
  /\ xpc = "loop"
  /\ xi <= NumPatterns
  /\ Search(xi, xurl).found
  /\ xres' = Str(Search(xi, xurl).group)
  /\ xpc' = "done"
  /\ UNCHANGED <<xurl, xi>>

\* one iteration whose pattern does not match
ExtractSkip ==
  /\ xpc = "loop"
  /\ xi <= NumPatterns
  /\ ~Search(xi, xurl).found
  /\ xi' = xi + 1
  /\ UNCHANGED <<xurl, xpc, xres>>

\* the loop is exhausted: return None
ExtractNone ==
  /\ xpc = "loop"
  /\ xi > NumPatterns
  /\ xres' = None
  /\ xpc' = "done"
  /\ UNCHANGED <<xurl, xi>>


(***************************************************************************)
(* The fetched page.  A script blob is "nomatch" (the script tag is not    *)
(* found), "badjson" (json.loads raises JSONDecodeError), "nondict" (valid *)
(* JSON on which .get raises AttributeError), "noitem" (an object without  *)
(* item data) or "item" (an object holding the item).  raw is the group    *)
(* the "downloadAddr" regex captures from the page, or NoRaw.              *)
(***************************************************************************)
Absent == [k |-> "absent", s |-> <<>>]      \* the key is not in the dict

\* d.get(key) and d.get(key, default) for the value v stored under key
Get(v) == IF v.k = "absent" THEN None ELSE v
GetDefault(v, d) == IF v.k = "absent" THEN d ELSE v

Placeholder == Str(<<"Video do TikTok">>)

NoItem ==
  [ videoKind |-> "absent", authorKind |-> "absent",
    downloadAddr |-> Absent, playAddr |-> Absent, bitrateInfo |-> <<>>,
    cover |-> Absent, originCover |-> Absent, duration |-> Absent,
    uniqueId |-> Absent, nickname |-> Absent, desc |-> Absent ]

BaseItem ==
  [ videoKind |-> "dict", authorKind |-> "dict",
    downloadAddr |-> Str(<<"d">>), playAddr |-> Str(<<"p">>),
    bitrateInfo |-> <<>>,
    cover |-> Str(<<"c">>), originCover |-> Str(<<"oc">>),
    duration |-> Num(<<"3", "0">>),
    uniqueId |-> Str(<<"uid">>), nickname |-> Str(<<"nick">>),
    desc |-> Str(<<"text">>) ]

DownloadAddrs == {Absent, Str(<<>>), Str(<<"d">>), Obj}
PlayAddrs == {Absent, Str(<<"p">>)}
BitrateEntries == {None, Str(<<"b1">>), Str(<<"b2">>)}
BitrateLists == SeqsUpTo(BitrateEntries, MaxBitrate)
Descs == {Absent, None, Str(<<>>), Str(<<"text">>), Obj}
Durations == {Absent, Num(<<"0">>), Num(<<"3", "0">>)}

\* items that vary the media addresses
AddrItems ==
  { [BaseItem EXCEPT !.downloadAddr = d, !.playAddr = p, !.bitrateInfo = b] :
      d \in DownloadAddrs, p \in PlayAddrs, b \in BitrateLists }
\* items that vary thumbnail, duration and description
MetaItems ==
  { [BaseItem EXCEPT !.cover = c, !.originCover = o, !.duration = n,
                     !.desc = t] :
      c \in {Absent, Str(<<"c">>)}, o \in {Absent, Str(<<"oc">>)},
      n \in Durations, t \in Descs }
\* items that vary the author, and items whose sub-objects are missing or
\* are not objects
AuthorItems ==
  { [BaseItem EXCEPT !.uniqueId = u, !.nickname = n] :
      u \in {Absent, Str(<<"uid">>)}, n \in {Absent, Str(<<"nick">>)} }
KindItems ==
  { [BaseItem EXCEPT !.authorKind = a, !.uniqueId = Absent,
                     !.nickname = Absent] : a \in {"absent", "bad"} }
  \cup
  { [BaseItem EXCEPT !.videoKind = v, !.downloadAddr = Absent,
                     !.playAddr = Absent, !.cover = Absent,
                     !.originCover = Absent, !.duration = Absent] :
      v \in {"absent", "bad"} }
Items == AddrItems \cup MetaItems \cup AuthorItems \cup KindItems

BlobKinds == {"nomatch", "badjson", "nondict", "noitem", "item"}
Blob(kind, item) ==
  [kind |-> kind, item |-> IF kind = "item" THEN item ELSE NoItem]

\* units of a captured "downloadAddr" value: a plain character, the escape
\* /, and a backslash that ends the value
RawUnits == {"h", "\\u002F"}
NoRaw == [found |-> FALSE, group |-> <<>>]
Raws ==
  {NoRaw}
  \cup {Match(r) : r \in SeqsUpTo(RawUnits, MaxRawLen) \ {<<>>}}
  \cup {Match(Append(r, "\\")) : r \in SeqsUpTo(RawUnits, MaxRawLen)}

\* pages that vary which payloads are present
ShapeHtmls ==
  { [sigi |-> Blob(k1, BaseItem), univ |-> Blob(k2, BaseItem), raw |-> r] :
      k1 \in BlobKinds, k2 \in BlobKinds, r \in Raws }
\* pages that vary the item of one payload
ItemHtmls ==
  { [sigi |-> Blob("item", it), univ |-> Blob("nomatch", it), raw |-> NoRaw] :
      it \in Items }
  \cup
  { [sigi |-> Blob("nomatch", it), univ |-> Blob("item", it), raw |-> NoRaw] :
      it \in Items }
Htmls == ShapeHtmls \cup ItemHtmls
NoHtml == [sigi |-> Blob("nomatch", NoItem), univ |-> Blob("nomatch", NoItem),
           raw |-> NoRaw]

(***************************************************************************)
(* Results of fetch_tiktok_data: a dict; a key it does not hold is Absent. *)
(* The messages are written without their diacritics.                      *)
(***************************************************************************)
Failure(msg) ==
  [ success |-> FALSE, video |-> Absent, video_hd |-> Absent,
    video_sd |-> Absent, audio |-> Absent, thumbnail |-> Absent,
    title |-> Absent, author |-> Absent, duration |-> Absent,
    error |-> Str(msg) ]

NoResult ==
  [ success |-> FALSE, video |-> Absent, video_hd |-> Absent,
    video_sd |-> Absent, audio |-> Absent, thumbnail |-> Absent,
    title |-> Absent, author |-> Absent, duration |-> Absent,
    error |-> Absent ]

MsgUnrecognized == <<"Formato de dados nao reconhecido">>
MsgNoData == <<"Nao foi possivel extrair dados do video">>
MsgTimeout == <<"Timeout ao acessar o TikTok">>
MsgProcessing == <<"Erro ao processar: ">>
MsgNoUrl == <<"URL nao fornecida">>
MsgInvalidUrl == <<"URL invalida. Forneca um link do TikTok.">>
MsgUnknown == <<"Erro desconhecido ao processar o video">>

\* str(d) + 's' if d else None
DurationText(d) == IF Truthy(d) THEN Str(d.s \o <<"s">>) ELSE None

\* a result whose HD variant falls back to the play address
ItemResultHdFallback(it, play) ==
  [ success |-> TRUE,
    video |-> PyOr(Get(it.downloadAddr), play),
    video_hd |-> PyOr(Get(it.downloadAddr), play),
    video_sd |-> play,
    audio |-> Absent,
    thumbnail |-> PyOr(Get(it.cover), Get(it.originCover)),
    title |-> GetDefault(it.desc, Placeholder),
    author |-> PyOr(Get(it.uniqueId), Get(it.nickname)),
    duration |-> DurationText(Get(it.duration)),
    error |-> Absent ]

\* a result whose title is "desc or placeholder"
ItemResultTitleOr(it, play) ==
  [ success |-> TRUE,
    video |-> PyOr(Get(it.downloadAddr), play),
    video_hd |-> Get(it.downloadAddr),
    video_sd |-> play,
    audio |-> Absent,
    thumbnail |-> PyOr(Get(it.cover), Get(it.originCover)),
    title |-> PyOr(Get(it.desc), Placeholder),
    author |-> PyOr(Get(it.uniqueId), Get(it.nickname)),
    duration |-> DurationText(Get(it.duration)),
    error |-> Absent ]

\* the dict both parsers build from the item's fields
ItemResult(it, play) ==
  [ success |-> TRUE,
    video |-> PyOr(Get(it.downloadAddr), play),
    video_hd |-> Get(it.downloadAddr),
    video_sd |-> play,
    audio |-> Absent,
    thumbnail |-> PyOr(Get(it.cover), Get(it.originCover)),
    title |-> GetDefault(it.desc, Placeholder),
    author |-> PyOr(Get(it.uniqueId), Get(it.nickname)),
    duration |-> DurationText(Get(it.duration)),
    error |-> Absent ]

parse_sigi_data(data) ==
  IF data.kind = "item"
     /\ data.item.videoKind # "bad" /\ data.item.authorKind # "bad"
  THEN ItemResult(data.item, Get(data.item.playAddr))
  ELSE Failure(MsgUnrecognized)

RECURSIVE FirstUrl(_, _)
\* the loop over bitrate_list: the first entry with a UrlList replaces play
FirstUrl(list, play) ==
  IF list = <<>> THEN play
  ELSE IF Truthy(Head(list)) THEN Head(list)
  ELSE FirstUrl(Tail(list), play)

parse_universal_data(data) ==
  IF data.kind = "item"
     /\ data.item.videoKind # "bad" /\ data.item.authorKind # "bad"
  THEN ItemResult(data.item,
                  FirstUrl(data.item.bitrateInfo, Get(data.item.playAddr)))
  ELSE Failure(MsgUnrecognized)

\* bytes.decode('unicode_escape') raises on a backslash that ends the value
DecodeRaises(r) == r # <<>> /\ r[Len(r)] = "\\"
\* a decoding that leaves escapes as they are
UnicodeEscapeUnitKept(u) == u
UnicodeEscapeUnit(u) == IF u = "\\u002F" THEN "/" ELSE u
\* .encode().decode('unicode_escape')
UnicodeEscape(r) == [i \in 1..Len(r) |-> UnicodeEscapeUnit(r[i])]
MsgDecode == "UnicodeDecodeError: \\ at end of string"

\* the dict of the third method
RawResult(r) ==
  [ success |-> TRUE, video |-> Str(UnicodeEscape(r)),
    video_hd |-> Str(UnicodeEscape(r)),
    video_sd |-> Absent, audio |-> Absent, thumbnail |-> Absent,
    title |-> Absent, author |-> Absent, duration |-> Absent,
    error |-> Absent ]

\* json.loads succeeded on the script's text
Loaded(blob) == blob.kind \notin {"nomatch", "badjson"}

\* the exception the parsing of the page raises into the outer handler
ParseException(h) ==
  IF ~Loaded(h.sigi) /\ ~Loaded(h.univ) /\ h.raw.found
     /\ DecodeRaises(h.raw.group)
  THEN Str(<<MsgDecode>>) ELSE None

\* fetch_tiktok_data from the response text on: the three methods in turn
ScrapePage(h) ==
  IF Loaded(h.sigi) THEN parse_sigi_data(h.sigi)
  ELSE IF Loaded(h.univ) THEN parse_universal_data(h.univ)
  ELSE IF h.raw.found
       THEN IF DecodeRaises(h.raw.group)
            THEN Failure(MsgProcessing \o <<MsgDecode>>)
            ELSE RawResult(h.raw.group)
  ELSE Failure(MsgNoData)


(***************************************************************************)
(* Responses of the two endpoints.                                         *)
(***************************************************************************)
Fields(kind, status, r) ==
  [ kind |-> kind, status |-> status, success |-> r.success,
    video |-> r.video, video_hd |-> r.video_hd, video_sd |-> r.video_sd,
    audio |-> r.audio, thumbnail |-> r.thumbnail, title |-> r.title,
    author |-> r.author, duration |-> r.duration, error |-> r.error ]

NoResponse == Fields("none", 0, NoResult)

\* the model accepts a field of type Optional[str]
IsOptionalStr(v) == v.k \in {"none", "str"}

\* DownloadResponse(success=False, error=msg)
ErrorResponse(msg) ==
  [Fields("DownloadResponse", 200, NoResult) EXCEPT
     !.video = None, !.video_hd = None, !.video_sd = None, !.audio = None,
     !.thumbnail = None, !.title = None, !.author = None, !.duration = None,
     !.error = msg]

\* the exception leaves the handler: the framework answers 500
Unhandled == Fields("unhandled", 500, NoResult)

\* raise HTTPException(status_code=400, ...)
BadRequest == Fields("HTTPException", 400, NoResult)

\* download_video from "if result.get('success')" on
DownloadResponseOf(r) ==
  IF r.success
  THEN IF \A v \in { Get(r.video), Get(r.video_hd), Get(r.video_sd),
                     Get(r.audio), Get(r.thumbnail), Get(r.title),
                     Get(r.author), Get(r.duration) } : IsOptionalStr(v)
       THEN [Fields("DownloadResponse", 200, r) EXCEPT
               !.video = Get(r.video), !.video_hd = Get(r.video_hd),
               !.video_sd = Get(r.video_sd), !.audio = Get(r.audio),
               !.thumbnail = Get(r.thumbnail), !.title = Get(r.title),
               !.author = Get(r.author), !.duration = Get(r.duration),
               !.error = None]
       ELSE Unhandled
  ELSE ErrorResponse(GetDefault(r.error, Str(MsgUnknown)))

\* get_video_info returns the dict as it is
InfoResponseOf(r) == Fields("json", 200, r)

ResponseOf(ep, r) ==
  IF ep = "download" THEN DownloadResponseOf(r) ELSE InfoResponseOf(r)

(***************************************************************************)
(* Inputs of the handlers.                                                 *)
(***************************************************************************)
UrlChunks == {<<" ">>, DomainText, DomainUpper, VmText, SlashTText}
ReqUrls == {Flatten(cs) : cs \in SeqsUpTo(UrlChunks, MaxUrlChunks)}
\* the URLs a redirect chain may end at
FinalUrls == { DomainSlash \o <<"@", "u">>, <<"x", ".", "c", "o", "m">> }
\* texts of the exceptions the page fetch may raise
ExcTexts == { "ConnectError: [Errno 111] 10.0.0.5:443",
              "SSLError: certificate verify failed" }

VARIABLES
  endpoint,     \* "none", "download" or "info": the route of the request
  rawUrl,       \* the url of the request as received
  url,          \* the local url of fetch_tiktok_data
  pc,           \* "idle", "await_head", "await_get" or "done"
  netLog,       \* the network calls issued, in order
  headOutcome,  \* "none", "returned" or "raised": how client.head ended
  headFinal,    \* response.url of the HEAD response
  exc,          \* the exception caught while fetching and parsing, or None
  html,         \* the page that client.get returned
  result,       \* the dict fetch_tiktok_data returned
  response      \* the response of the handler

hvars == <<endpoint, rawUrl, url, pc, netLog, headOutcome, headFinal, exc,
           html, result, response>>
vars == <<hvars, xvars>>

HIdle ==
  /\ endpoint = "none" /\ rawUrl = <<>> /\ url = <<>> /\ pc = "idle"
  /\ netLog = <<>> /\ headOutcome = "none" /\ headFinal = <<>>
  /\ exc = None /\ html = NoHtml /\ result = NoResult
  /\ response = NoResponse

Call(m, u) == [m |-> m, u |-> u]

\* a domain test that also lets through any URL with a /t/ path
IsTikTokUrlLoose(s) ==
  Contains(Lower(s), DomainText) \/ Contains(s, SlashTText)

\* 'tiktok.com' in url.lower()
IsTikTokUrl(s) == Contains(Lower(s), DomainText)

\* 'vm.tiktok.com' in url or '/t/' in url
IsShortLink(s) == Contains(s, VmDomainText) \/ Contains(s, SlashTText)

\* the handler answers without calling fetch_tiktok_data
Reject(resp) ==
  /\ response' = resp
  /\ pc' = "done"
  /\ UNCHANGED <<url, netLog, headOutcome, headFinal, exc, html, result>>

\* fetch_tiktok_data(s) up to its first await: the HEAD of a short link,
\* else the GET of the page
EnterFetch(s) ==
  /\ url' = s
  /\ IF IsShortLink(s)
     THEN /\ netLog' = Append(netLog, Call("HEAD", s))
          /\ pc' = "await_head"
     ELSE /\ netLog' = Append(netLog, Call("GET", s))
          /\ pc' = "await_get"
  /\ UNCHANGED <<headOutcome, headFinal, exc, html, result, response>>

\* POST /api/download
download_video(u) ==
  /\ pc = "idle"
  /\ endpoint' = "download"
  /\ rawUrl' = u
  /\ IF Strip(u) = <<>> THEN Reject(ErrorResponse(Str(MsgNoUrl)))
     ELSE IF ~IsTikTokUrl(Strip(u))
          THEN Reject(ErrorResponse(Str(MsgInvalidUrl)))
     ELSE EnterFetch(Strip(u))
  /\ UNCHANGED xvars

\* GET /api/info
get_video_info(u) ==
  /\ pc = "idle"
  /\ endpoint' = "info"
  /\ rawUrl' = u
  /\ IF ~IsTikTokUrl(u) THEN Reject(BadRequest) ELSE EnterFetch(u)
  /\ UNCHANGED xvars

\* get_redirect_url: client.head returns; fetch_tiktok_data goes on to GET
HeadReturns(f) ==
  /\ pc = "await_head"
  /\ headOutcome' = "returned"
  /\ headFinal' = f
  /\ url' = f
  /\ netLog' = Append(netLog, Call("GET", f))
  /\ pc' = "await_get"
  /\ UNCHANGED <<endpoint, rawUrl, exc, html, result, response, xvars>>

\* a resolver without the except clause: the exception of client.head ends
\* the request
HeadRaisesPropagates ==
  /\ pc = "await_head"
  /\ headOutcome' = "raised"
  /\ response' = Unhandled
  /\ pc' = "done"
  /\ UNCHANGED <<endpoint, rawUrl, url, netLog, headFinal, exc, html, result,
                 xvars>>

\* get_redirect_url: client.head raises; the bare except returns short_url
HeadRaises ==
  /\ pc = "await_head"
  /\ headOutcome' = "raised"
  /\ url' = url
  /\ netLog' = Append(netLog, Call("GET", url))
  /\ pc' = "await_get"
  /\ UNCHANGED <<endpoint, rawUrl, headFinal, exc, html, result, response,
                 xvars>>

\* fetch_tiktok_data returns r and the handler builds its response
Finish(r) ==
  /\ result' = r
  /\ response' = ResponseOf(endpoint, r)
  /\ pc' = "done"
  /\ UNCHANGED <<endpoint, rawUrl, url, netLog, headOutcome, headFinal,
                 xvars>>

\* client.get returns the page h, which is parsed
GetReturns(h) ==
  /\ pc = "await_get"
  /\ html' = h
  /\ exc' = ParseException(h)
  /\ Finish(ScrapePage(h))

\* a fetch that tries the GET again after a timeout
GetTimeoutRetries ==
  /\ pc = "await_get"
  /\ Len(netLog) < 3
  /\ exc' = Str(<<"TimeoutException">>)
  /\ netLog' = Append(netLog, Call("GET", url))
  /\ UNCHANGED <<endpoint, rawUrl, url, pc, headOutcome, headFinal, html,
                 result, response, xvars>>

\* client.get raises httpx.TimeoutException
GetTimeout ==
  /\ pc = "await_get"
  /\ exc' = Str(<<"TimeoutException">>)
  /\ Finish(Failure(MsgTimeout))
  /\ UNCHANGED html

\* client.get raises another exception, of text e
GetRaises(e) ==
  /\ pc = "await_get"
  /\ exc' = Str(<<e>>)
  /\ Finish(Failure(MsgProcessing \o <<e>>))
  /\ UNCHANGED html

\* a call of extract_video_id(u)
ExtractCall(u) ==
  /\ xpc = "idle"
  /\ xurl' = u
  /\ xi' = 1
  /\ xpc' = "loop"
  /\ UNCHANGED xres

Init == HIdle /\ XIdle

Next ==
  \/ \E u \in ReqUrls : download_video(u)
  \/ \E u \in ReqUrls : get_video_info(u)
  \/ \E f \in FinalUrls : HeadReturns(f)
  \/ HeadRaises
  \/ \E h \in Htmls : GetReturns(h)
  \/ GetTimeout
  \/ \E e \in ExcTexts : GetRaises(e)

Spec == Init /\ [][Next]_vars

NextExtract ==
  \/ \E u \in IdUrls : ExtractCall(u) /\ UNCHANGED hvars
  \/ ExtractMatch /\ UNCHANGED hvars
  \/ ExtractSkip /\ UNCHANGED hvars
  \/ ExtractNone /\ UNCHANGED hvars

SpecExtract == Init /\ [][NextExtract]_vars


(***************************************************************************)
(* Properties.                                                             *)
(***************************************************************************)
\* the url as fetch_tiktok_data received it
OrigUrl == IF endpoint = "download" THEN Strip(rawUrl) ELSE rawUrl

\* the request URL is empty after trimming or lacks the platform domain
InvalidInput(u) == Strip(u) = <<>> \/ ~Contains(Lower(u), DomainText)

Count(m) == Cardinality({i \in 1..Len(netLog) : netLog[i].m = m})

\* C1: a request whose URL is empty after trimming or does not contain
\* 'tiktok.com' (case-insensitively) makes no network call; POST
\* /api/download answers success:false with an error message and GET
\* /api/info answers with status 400.
C1_NoNetworkOnInvalid ==
  (endpoint # "none" /\ InvalidInput(rawUrl)) =>
    /\ netLog = <<>>
    /\ pc = "done"
    /\ endpoint = "download" =>
         /\ response.kind = "DownloadResponse"
         /\ ~response.success
         /\ response.error.k = "str" /\ response.error.s # <<>>
    /\ endpoint = "info" => response.status = 400

C1_Witness ==
  /\ endpoint = "download" /\ pc = "done"
  /\ Contains(rawUrl, VmText) /\ InvalidInput(rawUrl)
  /\ response.error = Str(MsgInvalidUrl)

\* C2: POST /api/download always returns a DownloadResponse, whatever the
\* redirect lookup, the page fetch and the parsing of the page yield, and
\* when resolution did not succeed the response has success=false and a
\* non-empty error.
C2_AlwaysDownloadResponse ==
  (endpoint = "download" /\ pc = "done") =>
    /\ response.kind = "DownloadResponse"
    /\ ~result.success =>
         /\ ~response.success
         /\ response.error.k = "str" /\ response.error.s # <<>>

\* C3: when the HEAD request returns, the pipeline goes on with the final
\* URL the client reports; when it raises, the exception is not
\* propagated and the pipeline goes on to the page fetch with the
\* original URL.
C3_RedirectBestEffort ==
  /\ headOutcome = "returned" =>
       /\ url = headFinal
       /\ netLog = <<Call("HEAD", OrigUrl), Call("GET", headFinal)>>
  /\ headOutcome = "raised" =>
       /\ url = OrigUrl
       /\ netLog = <<Call("HEAD", OrigUrl), Call("GET", OrigUrl)>>
       /\ pc \in {"await_get", "done"}

C3_Witness ==
  /\ headOutcome = "raised" /\ pc = "done" /\ result.success
  /\ Contains(OrigUrl, VmDomainText)

\* a payload shape of the page can be extracted
Extractable1(h) ==
  h.sigi.kind = "item" /\ h.sigi.item.videoKind # "bad"
  /\ h.sigi.item.authorKind # "bad"
Extractable2(h) ==
  h.univ.kind = "item" /\ h.univ.item.videoKind # "bad"
  /\ h.univ.item.authorKind # "bad"
Extractable3(h) == h.raw.found /\ h.raw.group[Len(h.raw.group)] # "\\"

\* the page was fetched and parsed
Parsed == pc = "done" /\ Count("GET") = 1 /\ exc # Str(<<"TimeoutException">>)
            /\ \A e \in ExcTexts : exc # Str(<<e>>)

\* C4: whenever the fetched page holds an extractable shape, the result is
\* Success taken from the highest-priority shape that can be extracted,
\* also when a higher-priority blob is valid JSON without item data.
C4_FallsThrough ==
  (Parsed /\ (Extractable1(html) \/ Extractable2(html) \/ Extractable3(html)))
    => /\ result.success
       /\ result = IF Extractable1(html) THEN parse_sigi_data(html.sigi)
                   ELSE IF Extractable2(html)
                        THEN parse_universal_data(html.univ)
                   ELSE RawResult(html.raw.group)

\* the third method produced the result
FromShape3 ==
  /\ Parsed
  /\ html.sigi.kind \in {"nomatch", "badjson"}
  /\ html.univ.kind \in {"nomatch", "badjson"}
  /\ Extractable3(html)

\* d is the escape-decoded text of r
IsDecoded(r, d) ==
  /\ Len(d) = Len(r)
  /\ \A i \in 1..Len(r) : d[i] = (IF r[i] = "h" THEN "h" ELSE "/")

\* C5 as stated: from shape 3 the HD and the SD variant both equal the
\* decoded URL and no other metadata is set.
C5_HdAndSd ==
  FromShape3 =>
    /\ result.success
    /\ Get(result.video_hd).k = "str"
    /\ IsDecoded(html.raw.group, Get(result.video_hd).s)
    /\ Get(result.video_sd) = Get(result.video_hd)
    /\ Get(result.thumbnail) = None /\ Get(result.author) = None
    /\ Get(result.duration) = None

\* C5 amended: from shape 3 the video field and the HD variant both equal
\* the decoded URL; the SD variant, thumbnail, author and duration are
\* empty; POST /api/download returns these fields unchanged.
C5_VideoAndHd ==
  FromShape3 =>
    /\ result.success
    /\ Get(result.video_hd).k = "str"
    /\ IsDecoded(html.raw.group, Get(result.video_hd).s)
    /\ Get(result.video) = Get(result.video_hd)
    /\ Get(result.video_sd) = None
    /\ Get(result.thumbnail) = None /\ Get(result.author) = None
    /\ Get(result.duration) = None
    /\ endpoint = "download" =>
         /\ response.kind = "DownloadResponse" /\ response.success
         /\ response.video = Get(result.video)
         /\ response.video_hd = Get(result.video_hd)
         /\ response.video_sd = None /\ response.thumbnail = None
         /\ response.author = None /\ response.duration = None

C5_Witness ==
  /\ FromShape3 /\ endpoint = "download"
  /\ html.raw.group = <<"h", "\\u002F">>
  /\ response.video_hd = Str(<<"h", "/">>)
  /\ response.video_sd = None

\* the result was parsed from the item of shape 1 or of shape 2
FromShape1 == Parsed /\ Extractable1(html)
FromShape2 == Parsed /\ html.sigi.kind \in {"nomatch", "badjson"}
                /\ Extractable2(html)
SrcItem == IF FromShape1 THEN html.sigi.item ELSE html.univ.item

\* the play-quality URL: for shape 2 the first bitrate entry with a URL
\* comes before the item's playAddr
PlayUrl ==
  LET it == SrcItem
      urls == {i \in 1..Len(it.bitrateInfo) : it.bitrateInfo[i].k = "str"}
  IN IF FromShape2 /\ urls # {}
     THEN it.bitrateInfo[CHOOSE i \in urls : \A j \in urls : i <= j]
     ELSE Get(it.playAddr)

\* C6 as stated: the HD variant is downloadAddr when present and playAddr
\* otherwise.
C6_HdFallsBack ==
  (FromShape1 \/ FromShape2) =>
    Get(result.video_hd) = IF SrcItem.downloadAddr.k # "absent"
                           THEN SrcItem.downloadAddr
                           ELSE Get(SrcItem.playAddr)

\* C6 amended: the HD variant is downloadAddr alone, empty when
\* downloadAddr is absent; the SD variant is the play-quality URL; the
\* video field is downloadAddr when that is non-empty and the play-quality
\* URL otherwise.
C6_HdIsDownloadAddr ==
  (FromShape1 \/ FromShape2) =>
    /\ result.success
    /\ result.video_hd = Get(SrcItem.downloadAddr)
    /\ result.video_sd = PlayUrl
    /\ result.video = IF Get(SrcItem.downloadAddr) \in {None, Str(<<>>)}
                      THEN PlayUrl ELSE SrcItem.downloadAddr

C6_Witness ==
  /\ FromShape1
  /\ SrcItem.downloadAddr = Absent /\ SrcItem.playAddr = Str(<<"p">>)
  /\ result.video_hd = None /\ result.video = Str(<<"p">>)

\* thumbnail, author and duration are empty when the payload lacks them
AbsentStayEmpty ==
  LET it == SrcItem IN
  /\ (it.cover = Absent /\ it.originCover = Absent)
       => Get(result.thumbnail) = None
  /\ (it.uniqueId = Absent /\ it.nickname = Absent)
       => Get(result.author) = None
  /\ it.duration = Absent => Get(result.duration) = None

\* C7 as stated: in every Success result absent thumbnail, author and
\* duration are empty and title is never empty: the description when the
\* payload has one, the placeholder otherwise.
C7_TitleNeverEmpty ==
  /\ (FromShape1 \/ FromShape2) =>
       /\ AbsentStayEmpty
       /\ Get(result.title) = IF SrcItem.desc \in {Absent, None, Str(<<>>)}
                              THEN Placeholder ELSE SrcItem.desc
  /\ FromShape3 => Get(result.title) = Placeholder

\* C7 amended: from shape 1 or 2, absent thumbnail, author and duration
\* are empty and title is the value of desc whenever the desc key is
\* present, the placeholder only when the key is missing; from shape 3
\* title, thumbnail, author and duration are all empty.
C7_TitleFromDescKey ==
  /\ (FromShape1 \/ FromShape2) =>
       /\ result.success
       /\ AbsentStayEmpty
       /\ result.title = IF SrcItem.desc = Absent THEN Placeholder
                         ELSE SrcItem.desc
  /\ FromShape3 =>
       /\ Get(result.title) = None /\ Get(result.thumbnail) = None
       /\ Get(result.author) = None /\ Get(result.duration) = None

C7_Witness ==
  /\ FromShape2
  /\ SrcItem.desc = Absent /\ SrcItem.cover = Absent
  /\ SrcItem.originCover = Absent
  /\ result.title = Placeholder /\ result.thumbnail = None

\* C8: when an unexpected exception occurs during resolution, the error
\* of POST /api/download is a fixed message that holds none of the
\* exception's text.
C8_NoLeak ==
  (endpoint = "download" /\ pc = "done" /\ exc.k = "str"
     /\ exc # Str(<<"TimeoutException">>)) =>
    /\ response.kind = "DownloadResponse"
    /\ \A i \in 1..Len(response.error.s) : response.error.s[i] # exc.s[1]

\* C9: one request issues at most one HEAD and at most one GET, the HEAD
\* before the GET, and a failed page fetch ends the request with a
\* failure result and no further call.
C9_NoRetries ==
  /\ Count("HEAD") <= 1 /\ Count("GET") <= 1
  /\ Count("HEAD") + Count("GET") = Len(netLog)
  /\ \A i, j \in 1..Len(netLog) :
       (netLog[i].m = "HEAD" /\ netLog[j].m = "GET") => i < j
  /\ (exc = Str(<<"TimeoutException">>) \/ \E e \in ExcTexts : exc = Str(<<e>>))
       => pc = "done" /\ ~result.success /\ ~response.success

C9_Witness ==
  /\ pc = "done" /\ exc = Str(<<"TimeoutException">>)
  /\ Len(netLog) = 2 /\ netLog[1].m = "HEAD" /\ netLog[2].m = "GET"
  /\ result = Failure(MsgTimeout)

\* the group of the earliest rule of the list that matches
FirstGroup(s) ==
  IF Search1(s).found THEN Str(Search1(s).group)
  ELSE IF Search2(s).found THEN Str(Search2(s).group)
  ELSE IF Search3(s).found THEN Str(Search3(s).group)
  ELSE IF Search4(s).found THEN Str(Search4(s).group)
  ELSE None

\* s[a..b] is a path segment of s made of more than 10 digits
LongNumericSegment(s, a, b) ==
  /\ a <= b /\ b - a + 1 > 10
  /\ a = 1 \/ s[a - 1] = "/"
  /\ b = Len(s) \/ s[b + 1] = "/"
  /\ \A j \in a..b : IsDigit(s[j])

\* the fallback heuristic: the first numeric path segment longer than 10
Fallback(s) ==
  LET segs == {p \in (1..Len(s)) \X (1..Len(s)) :
                 LongNumericSegment(s, p[1], p[2])}
  IN IF segs = {} THEN None
     ELSE LET f == CHOOSE p \in segs : \A q \in segs : p[1] <= q[1]
          IN Str(SubSeq(s, f[1], f[2]))

\* C10 as stated: first match wins, and when no rule matches the result
\* is the first numeric path segment longer than 10 digits, None only
\* when there is none.
C10_WithFallback ==
  xpc = "done" =>
    xres = IF FirstGroup(xurl) # None THEN FirstGroup(xurl)
           ELSE Fallback(xurl)

\* C10 amended: the result is the group of the earliest rule that
\* matches, whatever later rules match, and None whenever no rule
\* matches: there is no fallback.
C10_FirstMatchWins == xpc = "done" => xres = FirstGroup(xurl)

C10_Witness ==
  /\ xpc = "done"
  /\ Search2(xurl).found /\ Search3(xurl).found
  /\ Search2(xurl).group # Search3(xurl).group
  /\ xres = Str(Search2(xurl).group)

====
